---------------------------- MODULE Spec2Model ----------------------------
(***************************************************************************)
(* The free-text suggestion parser of the accessibility dashboard:         *)
(*   parseSuggestion          src/src/components/ResultsView.js:28-69      *)
(*   parseSuggestionExported  src/unnamed/part_000:1-37 (export function   *)
(*                            parseSuggestion, heading convention only)    *)
(* Strings are TLA+ strings handled character by character (Len, SubSeq,   *)
(* \o); the regular expressions of the source are modelled by what they    *)
(* match: leftmost start, lazy or greedy capture, lookahead, /i.           *)
(***************************************************************************)
EXTENDS Integers, Sequences, FiniteSets, TLC

VARIABLES
  origin,      \* how the upstream text generator composed the suggestion
  suggestion,  \* the argument handed to the parser by the rendering code
  resultRV,    \* what ResultsView.js parseSuggestion returned
  resultP0,    \* what part_000 parseSuggestion returned
  \* SearchDashboard (SearchDashboard.js:28-394)
  activeTab,      \* 0 semantic, 1 compliance, 2 violations
  query,          \* the text of the query field
  minScore,       \* the minimum compliance score
  results,        \* the rows shown in the results table
  loading,        \* a search is shown as running
  searchError,    \* the error text of the dashboard, or null
  searchHistory,  \* the recent searches, as shown
  timers,         \* the setTimeout(handleSearch, 300) calls not yet fired
                  \* (each with the item whose click scheduled it)
  requests,       \* the handleSearch calls waiting for their response
  sent,           \* how many requests the dashboard has sent
  session,        \* how many searches the user starts at most
  \* ScannerForm (SearchDashboard.js:410-522) and App (ResultsView.js:700-833)
  url,            \* the text of the URL field
  isValidUrl,     \* ScannerForm: the last submitted text was a URL
  scanData,       \* App: the scan report shown, or null
  isLoading,      \* App: a scan is shown as running
  currentURL,     \* App: the URL named as being scanned
  scanError,      \* App: the error text shown, or null
  scans,          \* the handleSubmit calls waiting for their response
  submitted,      \* how many scan requests the form has sent
  reported        \* the argument of the last onError call of ScannerForm

parserVars == <<origin, suggestion, resultRV, resultP0>>

searchVars ==
  <<activeTab, query, minScore, results, loading, searchError, searchHistory,
    timers, requests, sent, session>>

scanVars ==
  <<url, isValidUrl, scanData, isLoading, currentURL, scanError, scans,
    submitted, reported>>

vars == <<parserVars, searchVars, scanVars>>

---------------------------------------------------------------------------
(* JavaScript values *)

\* A JavaScript argument or outcome: null, undefined, a string, a record,
\* or an exception thrown out of the call.
Null == [kind |-> "null"]
Undefined == [kind |-> "undefined"]
Str(text) == [kind |-> "string", text |-> text]
Thrown(name) == [kind |-> "throw", error |-> name]
NotCalled == [kind |-> "not called"]

---------------------------------------------------------------------------
(* String primitives *)

Ch(s, i) == SubSeq(s, i, i)

\* \s of the regular expressions and the characters String.prototype.trim drops
WhiteSpace == {" ", "\n", "\t", "\r"}

Digits == {"0", "1", "2", "3", "4", "5", "6", "7", "8", "9"}

LowerOf ==
  [A |-> "a", B |-> "b", C |-> "c", D |-> "d", E |-> "e", F |-> "f", G |-> "g",
   H |-> "h", I |-> "i", J |-> "j", K |-> "k", L |-> "l", M |-> "m", N |-> "n",
   O |-> "o", P |-> "p", Q |-> "q", R |-> "r", S |-> "s", T |-> "t", U |-> "u",
   V |-> "v", W |-> "w", X |-> "x", Y |-> "y", Z |-> "z"]

\* [\w-] of the rule id in the numbered explanation marker
WordOrHyphen ==
  DOMAIN LowerOf \cup {LowerOf[c] : c \in DOMAIN LowerOf} \cup Digits \cup {"_", "-"}

\* a comparison that tells the letter cases apart (for comparison)
FoldCharExact(c) == c

FoldChar(c) == IF c \in DOMAIN LowerOf THEN LowerOf[c] ELSE c

\* the /i flag: both the pattern text and the subject are compared case-folded
\* (folded half by half, which keeps the evaluation shallow)
RECURSIVE FoldCase(_)
FoldCase(s) ==
  IF Len(s) = 0 THEN ""
  ELSE IF Len(s) = 1 THEN FoldChar(s)
  ELSE LET h == Len(s) \div 2
       IN FoldCase(SubSeq(s, 1, h)) \o FoldCase(SubSeq(s, h + 1, Len(s)))

StartsWithAt(s, lit, i) ==
  /\ i >= 1
  /\ i + Len(lit) - 1 <= Len(s)
  /\ SubSeq(s, i, i + Len(lit) - 1) = lit

Min(S) == CHOOSE x \in S : \A y \in S : x <= y

Max(S) == CHOOSE x \in S : \A y \in S : y <= x

\* the indices >= from at which lit occurs in s
Occurrences(s, lit, from) ==
  {i \in from..(Len(s) - Len(lit) + 1) : SubSeq(s, i, i + Len(lit) - 1) = lit}

\* smallest index >= from at which lit occurs in s, 0 when there is none
IndexOf(s, lit, from) ==
  LET occ == Occurrences(s, lit, from)
  IN IF occ = {} THEN 0 ELSE Min(occ)

Contains(s, lit) == IndexOf(s, lit, 1) # 0

RECURSIVE SkipWhiteSpace(_, _)
SkipWhiteSpace(s, i) ==
  IF i <= Len(s) /\ Ch(s, i) \in WhiteSpace THEN SkipWhiteSpace(s, i + 1) ELSE i

RECURSIVE SkipWhiteSpaceBack(_, _)
SkipWhiteSpaceBack(s, i) ==
  IF i >= 1 /\ Ch(s, i) \in WhiteSpace THEN SkipWhiteSpaceBack(s, i - 1) ELSE i

\* String.prototype.trim
Trim(s) ==
  LET first == SkipWhiteSpace(s, 1)
      last == SkipWhiteSpaceBack(s, Len(s))
  IN IF first > last THEN "" ELSE SubSeq(s, first, last)

\* mutant: the pieces come out last first
RECURSIVE SplitReversed(_)
SplitReversed(s) ==
  LET nl == IndexOf(s, "\n", 1)
  IN IF nl = 0 THEN <<s>>
     ELSE SplitReversed(SubSeq(s, nl + 1, Len(s))) \o <<SubSeq(s, 1, nl - 1)>>

\* String.prototype.split('\n'): always at least one piece
RECURSIVE Split(_)
Split(s) ==
  LET nl == IndexOf(s, "\n", 1)
  IN IF nl = 0 THEN <<s>>
     ELSE <<SubSeq(s, 1, nl - 1)>> \o Split(SubSeq(s, nl + 1, Len(s)))


---------------------------------------------------------------------------
(* String.prototype.match with the regular expressions of the source *)

\* null (no match), or the match array: its index and capture group 1
NoMatch == [found |-> FALSE]
Match(i, g) == [found |-> TRUE, index |-> i, group |-> g]

\* a || b on match results: null is falsy, a match array is truthy
\* the alternatives in the other order (for comparison)
OrElseSecondFirst(a, b) == IF b.found THEN b ELSE a

OrElse(a, b) == IF a.found THEN a ELSE b

\* leftmost i >= from where lit occurs and la occurs somewhere at or after the
\* end of lit; fs, fl, fa are case-folded
RECURSIVE LazyStart(_, _, _, _)
LazyStart(fs, fl, fa, from) ==
  LET i == IndexOf(fs, fl, from)
  IN IF i = 0 THEN 0
     ELSE IF IndexOf(fs, fa, i + Len(fl)) # 0 THEN i
     ELSE LazyStart(fs, fl, fa, i + 1)

\* mutant: [\s\S]* for [\s\S]*?, the capture runs to the last la
MatchGreedyUntil(s, lit, la) ==
  LET fs == FoldCase(s)
      fl == FoldCase(lit)
      fa == FoldCase(la)
      i == LazyStart(fs, fl, fa, 1)
      b == i + Len(fl)
  IN IF i = 0 THEN NoMatch
     ELSE Match(i, SubSeq(s, b, Max(Occurrences(fs, fa, b)) - 1))

\* s.match(/lit([\s\S]*?)(?=la)/i): the capture is the shortest text after
\* lit that is followed by la
MatchLazyUntil(s, lit, la) ==
  LET fs == FoldCase(s)
      fl == FoldCase(lit)
      fa == FoldCase(la)
      i == LazyStart(fs, fl, fa, 1)
      b == i + Len(fl)
  IN IF i = 0 THEN NoMatch
     ELSE Match(i, SubSeq(s, b, IndexOf(fs, fa, b) - 1))

\* s.match(/lit([\s\S]*)/i): the capture runs to the end of the string
MatchToEnd(s, lit) ==
  LET i == IndexOf(FoldCase(s), FoldCase(lit), 1)
  IN IF i = 0 THEN NoMatch ELSE Match(i, SubSeq(s, i + Len(lit), Len(s)))

\* the same match with the colon left in the content (for comparison)
MatchToEndKeepColon(s, lit) == MatchToEnd(s, lit)

\* s.match(/lit:?([\s\S]*)/i): a colon right after lit belongs to the match
MatchToEndOptColon(s, lit) ==
  LET i == IndexOf(FoldCase(s), FoldCase(lit), 1)
      e == i + Len(lit)
      b == IF e <= Len(s) /\ Ch(s, e) = ":" THEN e + 1 ELSE e
  IN IF i = 0 THEN NoMatch ELSE Match(i, SubSeq(s, b, Len(s)))

RECURSIVE RunLength(_, _, _)
RunLength(s, i, class) ==
  IF i <= Len(s) /\ Ch(s, i) \in class THEN 1 + RunLength(s, i + 1, class) ELSE 0

\* the end (index after the match of pre [\w-]+ post) for a match that starts
\* at i and is followed somewhere by la, 0 when there is none; the greedy
\* [\w-]+ gives back characters until post and the lookahead succeed
RuleIdEnd(fs, i, pre, post, fa) ==
  LET p == i + Len(pre)
      k == RunLength(fs, p, WordOrHyphen)
      ok == {r \in 1..k : /\ StartsWithAt(fs, post, p + r)
                          /\ IndexOf(fs, fa, p + r + Len(post)) # 0}
  IN IF ok = {} THEN 0
     ELSE p + Max(ok) + Len(post)

RECURSIVE RuleIdStart(_, _, _, _, _)
RuleIdStart(fs, pre, post, fa, from) ==
  LET i == IndexOf(fs, pre, from)
  IN IF i = 0 THEN 0
     ELSE IF RuleIdEnd(fs, i, pre, post, fa) # 0 THEN i
     ELSE RuleIdStart(fs, pre, post, fa, i + 1)

\* s.match(/pre[\w-]+post([\s\S]*?)(?=la)/i)
MatchRuleIdLazyUntil(s, pre, post, la) ==
  LET fs == FoldCase(s)
      fp == FoldCase(pre)
      fq == FoldCase(post)
      fa == FoldCase(la)
      i == RuleIdStart(fs, fp, fq, fa, 1)
      b == RuleIdEnd(fs, i, fp, fq, fa)
  IN IF i = 0 THEN NoMatch
     ELSE Match(i, SubSeq(s, b, IndexOf(fs, fa, b) - 1))

---------------------------------------------------------------------------
(* The step-line clean-up of the two implementations *)

\* U+2022 BULLET: a TLA+ string holds ASCII only, so the glyph is written "@",
\* a character no suggestion text of the model uses for anything else
BulletGlyph == "@"

\* [-*] and U+2022 of the bullet prefix
Bullets == {"-", BulletGlyph, "*"}

\* step.replace(/^[-*]\s*/, ''), the class holding U+2022 as well
StripBullet(step) ==
  IF Len(step) >= 1 /\ Ch(step, 1) \in Bullets
  THEN SubSeq(step, SkipWhiteSpace(step, 2), Len(step))
  ELSE step

\* step.replace(/^\d+\.\s*/, '')
StripOrdinal(step) ==
  LET d == RunLength(step, 1, Digits)
  IN IF d >= 1 /\ d + 1 <= Len(step) /\ Ch(step, d + 1) = "."
     THEN SubSeq(step, SkipWhiteSpace(step, d + 2), Len(step))
     ELSE step


\* ResultsView.js: .map(step => step.replace(bullet).replace(ordinal).trim())
CleanStepRV(step) == Trim(StripOrdinal(StripBullet(step)))

\* ResultsView.js: .filter(step => step.length > 0 &&
\*                                 !step.match(/implementation steps/i))
KeepStepRV(step) ==
  /\ Len(step) > 0
  /\ ~Contains(FoldCase(step), FoldCase("implementation steps"))

\* part_000: .map(step => step.replace(ordinal).trim())
CleanStepP0(step) == Trim(StripOrdinal(step))

\* part_000: .filter(step => step.length > 0)
KeepStepP0(step) == Len(step) > 0

StepsOfRV(group) ==
  LET stepsText == Trim(group)
      lines == Split(stepsText)
      mapped == [i \in 1..Len(lines) |-> CleanStepRV(lines[i])]
  IN SelectSeq(mapped, KeepStepRV)

StepsOfP0(group) ==
  LET stepsText == Trim(group)
      lines == Split(stepsText)
      mapped == [i \in 1..Len(lines) |-> CleanStepP0(lines[i])]
  IN SelectSeq(mapped, KeepStepP0)

---------------------------------------------------------------------------
(* The two parsers *)

Record(e, f, st, w) ==
  [kind |-> "record", explanation |-> e, fixedHTML |-> f, steps |-> st, wcag |-> w]

\* mutant: the fallback trims the suggestion
FallbackTrimmed(s) == Record(Trim(s), "", <<>>, "")

\* the record returned when neither explanation nor fixedHTML was filled
Fallback(s) == Record(s, "", <<>>, "")

\* mutant: the fallback keeps the steps and wcag that did match
AssembleKeepsPartial(s, explanationMatch, fixedHTMLMatch, steps, wcagMatch) ==
  LET explanation == IF explanationMatch.found THEN Trim(explanationMatch.group) ELSE ""
      fixedHTML == IF fixedHTMLMatch.found THEN Trim(fixedHTMLMatch.group) ELSE ""
      wcag == IF wcagMatch.found THEN Trim(wcagMatch.group) ELSE ""
  IN IF explanation = "" /\ fixedHTML = ""
     THEN Record(s, "", steps, wcag)
     ELSE Record(explanation, fixedHTML, steps, wcag)

\* mutant: the captures are taken as they are, without .trim()
AssembleUntrimmed(s, explanationMatch, fixedHTMLMatch, steps, wcagMatch) ==
  LET explanation == IF explanationMatch.found THEN explanationMatch.group ELSE ""
      fixedHTML == IF fixedHTMLMatch.found THEN fixedHTMLMatch.group ELSE ""
      wcag == IF wcagMatch.found THEN wcagMatch.group ELSE ""
  IN IF explanation = "" /\ fixedHTML = ""
     THEN Fallback(s)
     ELSE Record(explanation, fixedHTML, steps, wcag)

\* mutant: no fallback, the sections are returned as they are
AssembleNoFallback(s, explanationMatch, fixedHTMLMatch, steps, wcagMatch) ==
  Record(IF explanationMatch.found THEN Trim(explanationMatch.group) ELSE "",
         IF fixedHTMLMatch.found THEN Trim(fixedHTMLMatch.group) ELSE "",
         steps,
         IF wcagMatch.found THEN Trim(wcagMatch.group) ELSE "")

\* the sections object after the four "if (xMatch) sections.x = ..." lines,
\* then the fallback test
Assemble(s, explanationMatch, fixedHTMLMatch, steps, wcagMatch) ==
  LET explanation == IF explanationMatch.found THEN Trim(explanationMatch.group) ELSE ""
      fixedHTML == IF fixedHTMLMatch.found THEN Trim(fixedHTMLMatch.group) ELSE ""
      wcag == IF wcagMatch.found THEN Trim(wcagMatch.group) ELSE ""
  IN IF explanation = "" /\ fixedHTML = ""
     THEN Fallback(s)
     ELSE Record(explanation, fixedHTML, steps, wcag)

explanationMatchRV(s) ==
  OrElse(MatchLazyUntil(s, "### Concise Technical Explanation", "###"),
         MatchRuleIdLazyUntil(s, "1. Explanation of this ", " violation", "2."))

fixedHTMLMatchRV(s) ==
  OrElse(MatchLazyUntil(s, "### Fixed HTML Snippet", "###"),
         MatchLazyUntil(s, "2. Fixed HTML code", "3."))

stepsMatchRV(s) ==
  OrElse(MatchLazyUntil(s, "### Implementation Steps", "###"),
         MatchLazyUntil(s, "3. Implementation steps", "WCAG reference"))

wcagMatchRV(s) ==
  OrElse(MatchToEnd(s, "### WCAG Reference"),
         MatchToEndOptColon(s, "WCAG reference"))

\* ResultsView.js parseSuggestion: !suggestion is true of null, undefined
\* and the empty string
parseSuggestion(arg) ==
  IF arg.kind # "string" \/ arg.text = "" THEN Null
  ELSE LET s == arg.text
           stepsMatch == stepsMatchRV(s)
       IN Assemble(s, explanationMatchRV(s), fixedHTMLMatchRV(s),
                   IF stepsMatch.found THEN StepsOfRV(stepsMatch.group) ELSE <<>>,
                   wcagMatchRV(s))

explanationMatchP0(s) == MatchLazyUntil(s, "### Concise Technical Explanation", "###")

fixedHTMLMatchP0(s) == MatchLazyUntil(s, "### Fixed HTML Snippet", "###")

stepsMatchP0(s) == MatchLazyUntil(s, "### Implementation Steps", "###")

wcagMatchP0(s) == MatchToEnd(s, "### WCAG Reference")

\* part_000 parseSuggestion: no guard, so suggestion.match on null or
\* undefined throws a TypeError
parseSuggestionExported(arg) ==
  IF arg.kind # "string" THEN Thrown("TypeError")
  ELSE LET s == arg.text
           stepsMatch == stepsMatchP0(s)
       IN Assemble(s, explanationMatchP0(s), fixedHTMLMatchP0(s),
                   IF stepsMatch.found THEN StepsOfP0(stepsMatch.group) ELSE <<>>,
                   wcagMatchP0(s))


---------------------------------------------------------------------------
(* The suggestion texts the rendering code hands to the parsers *)

\* the longest steps block, in lines
MaxStepLines == 3

\* the longest free-form suggestion, in fragments
MaxChunks == 3

SectionIds == 1..4

\* the marker that opens section k in each of the two conventions
Marker(style, k) ==
  IF style = "heading"
  THEN <<"### Concise Technical Explanation", "### Fixed HTML Snippet",
         "### Implementation Steps", "### WCAG Reference">>[k]
  ELSE <<"1. Explanation of this color-contrast violation", "2. Fixed HTML code",
         "3. Implementation steps", "WCAG reference:">>[k]

Styles == {"none", "heading", "numbered"}

ExplanationBodies ==
  {"", "\n", "\nMissing alt attribute.\n", "\nFails WCAG 2.1 contrast.\n"}

FixedHTMLBodies ==
  {"", "\n<img alt=\"desc\">\n", "\n<b style=\"font-size:13.5px\">\n"}

WcagBodies == {" 1.4.3", "\n1.1.1 Non-text Content"}

StepLines ==
  {"1. Add alt text", "10. Test with screen reader", "", "Reload the page ",
   "- Do X", "   2. Do Y", "Implementation Steps:"}

RECURSIVE JoinLines(_)
JoinLines(lines) ==
  IF Len(lines) = 0 THEN ""
  ELSE IF Len(lines) = 1 THEN lines[1]
  ELSE lines[1] \o "\n" \o JoinLines(Tail(lines))

\* a steps block of the given lines, on lines of its own after the marker
StepsBody(lines) == "\n" \o JoinLines(lines) \o "\n"

\* the steps blocks used while the other sections vary
SectionStepLines ==
  {<<"">>, <<"1. Add alt attribute", "2. Verify with screen reader">>}

\* the steps block of the specification's ordered-steps example
ExampleStepLines ==
  <<"1. Add alt text", "2. Verify contrast", "3. Test with screen reader">>

\* the steps blocks used while the other sections are fixed
StepBlocks ==
  UNION {[1..n -> StepLines] : n \in 1..MaxStepLines} \cup {ExampleStepLines}

FreeChunks ==
  {"### Concise Technical Explanation", "### Fixed HTML Snippet",
   "1. Explanation of this color-contrast violation", "WCAG reference:",
   "\nAdd alt text.\n", " ", "See WCAG 2.1 ", "###"}

RECURSIVE Concat(_)
Concat(chunks) == IF Len(chunks) = 0 THEN "" ELSE chunks[1] \o Concat(Tail(chunks))

\* the text of a sectioned suggestion: each present section is its marker
\* followed by its body
SectionText(styles, bodies) ==
  Concat([k \in SectionIds |->
            IF styles[k] = "none" THEN "" ELSE Marker(styles[k], k) \o bodies[k]])

Absent(value) == [family |-> "absent", value |-> value]

Free(chunks) == [family |-> "free", chunks |-> chunks]

Sectioned(styles, e, f, lines, w) ==
  [family |-> "sections", styles |-> styles, lines |-> lines,
   bodies |-> <<e, f, IF styles[3] = "none" THEN "" ELSE StepsBody(lines), w>>]

BodiesFor(style, set) == IF style = "none" THEN {""} ELSE set

LinesFor(style, set) == IF style = "none" THEN {<<>>} ELSE set

\* no suggestion at all: v.suggestion?.suggestion is null or undefined
AbsentOrigins == {Absent(Null), Absent(Undefined)}

\* free-form text: prose, stray fragments, markers repeated or out of order
FreeOrigins == {Free(c) : c \in UNION {[1..n -> FreeChunks] : n \in 0..MaxChunks}}

\* every choice of present sections and conventions, with short bodies
SectionOrigins ==
  UNION {{Sectioned(st, e, f, l, w) :
            e \in BodiesFor(st[1], ExplanationBodies),
            f \in BodiesFor(st[2], FixedHTMLBodies),
            l \in LinesFor(st[3], SectionStepLines),
            w \in BodiesFor(st[4], WcagBodies)} :
         st \in [SectionIds -> Styles]}

\* all four sections in one convention, with every steps block
StepsOrigins ==
  {Sectioned([k \in SectionIds |-> style], "\nMissing alt attribute.\n",
             "\n<img alt=\"desc\">\n", l, "\n1.1.1 Non-text Content") :
     style \in {"heading", "numbered"}, l \in StepBlocks}

\* the longest steps block of the prefix study, in lines
MaxCleanLines == 2

\* lines of a steps block, one of each prefix shape the clean-up meets
PrefixedLines ==
  {"1. Add alt text", "Reload the page ", "", "- Do X", BulletGlyph \o " Do W",
   "* Do V", "1.", "-", "1. - Do X", "   2. Do Y", "   - Do Z",
   "Implementation Steps", "Follow the implementation steps below"}

\* two numbered items with one blank line between them
BlankBetweenLines == <<"1. Add alt text", "", "2. Verify contrast">>

PrefixedBlocks ==
  UNION {[1..n -> PrefixedLines] : n \in 1..MaxCleanLines}
    \cup {BlankBetweenLines}

\* all four sections in one convention, with every block of prefixed lines
PrefixOrigins ==
  {Sectioned([k \in SectionIds |-> style], "\nMissing alt attribute.\n",
             "\n<img alt=\"desc\">\n", l, "\n1.1.1 Non-text Content") :
     style \in {"heading", "numbered"}, l \in PrefixedBlocks}

\* section bodies that carry a sub-heading or a decimal number in their prose
SubheadedExplanations ==
  {"\nMissing alt attribute.\n",
   "\nImage has no alt.\n### Why it matters\nReaders skip it.\n",
   "\nFails WCAG 2.1 contrast.\n"}

SubheadedStepLines ==
  {<<"1. Add alt text", "2. Verify contrast">>,
   <<"1. Add alt text", "### Note", "2. Verify contrast">>,
   <<"1. Raise the ratio to 4.5:1", "2. Re-test against WCAG 2.1">>}

\* all four sections in one convention, with such bodies
SubheadingOrigins ==
  {Sectioned([k \in SectionIds |-> style], e, "\n<img alt=\"desc\">\n", l,
             "\n1.1.1 Non-text Content") :
     style \in {"heading", "numbered"}, e \in SubheadedExplanations,
     l \in SubheadedStepLines}

\* the bodies of a suggestion that is written twice, once per convention
DoubleBodies(style) ==
  IF style = "heading"
  THEN <<"\nMissing alt attribute.\n", "\n<img alt=\"desc\">\n",
         StepsBody(<<"1. Add alt text">>), "\n1.1.1 Non-text Content\n">>
  ELSE <<"\nImage lacks a text alternative.\n", "\n<img alt=\"logo\">\n",
         StepsBody(<<"1. Describe the image">>), " 1.1.1\n">>

Double(order, present) ==
  [family |-> "double", order |-> order, present |-> present]

\* the same sections written in both conventions in one suggestion, in
\* either order, each section present or not in each convention
DoubleOrigins ==
  {Double(order, present) :
     order \in {<<"heading", "numbered">>, <<"numbered", "heading">>},
     present \in [{"heading", "numbered"} -> SUBSET SectionIds]}

\* the text of the part of a doubled suggestion written in one convention
DoublePart(style, present) ==
  SectionText([k \in SectionIds |-> IF k \in present THEN style ELSE "none"],
              DoubleBodies(style))

Origins == AbsentOrigins \cup FreeOrigins \cup SectionOrigins \cup StepsOrigins

\* the argument the rendering code passes for a suggestion of that origin
Argument(o) ==
  CASE o.family = "absent" -> o.value
    [] o.family = "free" -> Str(Concat(o.chunks))
    [] o.family = "sections" -> Str(SectionText(o.styles, o.bodies))
    [] o.family = "double" ->
         Str(DoublePart(o.order[1], o.present[o.order[1]])
               \o DoublePart(o.order[2], o.present[o.order[2]]))

---------------------------------------------------------------------------
(* The two views of the dashboard as they are mounted *)

\* SearchDashboard's useState initial values; nothing scheduled or sent
SearchMounted ==
  /\ activeTab = 0
  /\ query = ""
  /\ minScore = 80
  /\ results = <<>>
  /\ loading = FALSE
  /\ searchError = Null
  /\ searchHistory = <<>>
  /\ timers = <<>>
  /\ requests = {}
  /\ sent = 0

\* ScannerForm's and App's useState initial values; nothing sent
ScannerMounted ==
  /\ url = ""
  /\ isValidUrl = TRUE
  /\ scanData = Null
  /\ isLoading = FALSE
  /\ currentURL = ""
  /\ scanError = Null
  /\ scans = {}
  /\ submitted = 0
  /\ reported = Null

---------------------------------------------------------------------------
(* The rendering code calls the parsers on one suggestion *)

Init ==
  /\ origin \in Origins
  /\ suggestion = Argument(origin)
  /\ resultRV = NotCalled
  /\ resultP0 = NotCalled
  /\ SearchMounted /\ session = 0
  /\ ScannerMounted

\* ResultsView.js: parseSuggestion(violation.suggestion?.suggestion)
CallResultsView ==
  /\ resultRV = NotCalled
  /\ resultRV' = parseSuggestion(suggestion)
  /\ UNCHANGED <<origin, suggestion, resultP0, searchVars, scanVars>>

\* a caller of the exported parseSuggestion of part_000
CallExported ==
  /\ resultP0 = NotCalled
  /\ resultP0' = parseSuggestionExported(suggestion)
  /\ UNCHANGED <<origin, suggestion, resultRV, searchVars, scanVars>>

Next == CallResultsView \/ CallExported

Spec == Init /\ [][Next]_vars

\* the same calls on suggestions whose sections vary: present or not, in
\* either convention or in both, with sub-headings and decimals in the prose
InitSections ==
  /\ origin \in SectionOrigins \cup SubheadingOrigins \cup DoubleOrigins
  /\ suggestion = Argument(origin)
  /\ resultRV = NotCalled
  /\ resultP0 = NotCalled
  /\ SearchMounted /\ session = 0
  /\ ScannerMounted

SpecSections == InitSections /\ [][Next]_vars

\* the same calls on suggestions whose steps lines carry every prefix shape
InitPrefixes ==
  /\ origin \in PrefixOrigins
  /\ suggestion = Argument(origin)
  /\ resultRV = NotCalled
  /\ resultP0 = NotCalled
  /\ SearchMounted /\ session = 0
  /\ ScannerMounted

SpecPrefixes == InitPrefixes /\ [][Next]_vars

---------------------------------------------------------------------------
(* SearchDashboard: the handlers of SearchDashboard.js:28-394 *)

\* the most searches of a session in which the user does anything
MaxSearches == 2

\* the most searches of a session in which the user only repeats searches
MaxReplays == 6

\* what the user types into the query field, and the chips offered
TypedQueries == {" ", "contrast"}

ChipIds == {"image-alt"}

\* what the user enters as minimum score (the field's text as its number)
TypedScores == {50}

TabIds == 0..2

\* the search type of a tab, as handleSearch and the history name it
SearchType(tab) ==
  IF tab = 0 THEN "semantic" ELSE IF tab = 1 THEN "compliance" ELSE "violation"

\* the tab a recent search is replayed on (line 330)
TabOfType(type) ==
  IF type = "compliance" THEN 1 ELSE IF type = "violation" THEN 2 ELSE 0

\* the state that the handleSearch of the current render has closed over
Closure == [activeTab |-> activeTab, query |-> query, minScore |-> minScore]

\* setTimeout(handleSearch, 300): the call scheduled is the handleSearch of
\* the render in which the click happened; what was clicked is noted with it
Scheduled(item) == [closure |-> Closure, clicked |-> item]

\* the parameter a search of that closure sends (lines 52, 57, 62)
Parameter(c) ==
  IF c.activeTab = 1 THEN [minScore |-> c.minScore] ELSE [query |-> c.query]

\* the rows the server answers a search with, when it has any
RowsFor(c) == <<[type |-> SearchType(c.activeTab), asked |-> Parameter(c)]>>

\* new Date(): a reading later than the date of every entry made before
DateNow == IF Len(searchHistory) = 0 THEN 1 ELSE searchHistory[1].date + 1

\* the history entry of a search (lines 54, 59, 64)
Entry(c) ==
  IF c.activeTab = 1
  THEN [type |-> "compliance", minScore |-> c.minScore, date |-> DateNow]
  ELSE [type |-> SearchType(c.activeTab), query |-> c.query, date |-> DateNow]

\* prev.slice(0, 4)
\* prev.slice(0, 5), which would keep one entry too many
Slice05(prev) == SubSeq(prev, 1, Min({5, Len(prev)}))

Slice04(prev) == SubSeq(prev, 1, Min({4, Len(prev)}))

\* every request sent or scheduled counts against the session's budget
Budget == sent + Len(timers) < session

\* handleSearch up to its await (lines 38-65): the empty semantic query is
\* refused, any other search is shown as loading and sent
BeginSearch(c) ==
  IF c.activeTab = 0 /\ Trim(c.query) = ""
  THEN /\ searchError' = Str("Please enter a search query")
       /\ UNCHANGED <<loading, results, requests, sent, session>>
  ELSE /\ loading' = TRUE
       /\ searchError' = Null
       /\ results' = <<>>
       /\ requests' = requests \cup {[n |-> sent + 1, closure |-> c]}
       /\ sent' = sent + 1

\* TextField onChange of the query field (lines 132, 167)
TypeQuery ==
  /\ activeTab \in {0, 2}
  /\ \E q \in TypedQueries : query' = q
  /\ UNCHANGED <<activeTab, minScore, results, loading, searchError,
                 searchHistory, timers, requests, sent, session>>
  /\ UNCHANGED <<parserVars, scanVars>>

\* TextField onChange of the score field (line 149)
TypeMinScore ==
  /\ activeTab = 1
  /\ \E s \in TypedScores : minScore' = s
  /\ UNCHANGED <<activeTab, query, results, loading, searchError,
                 searchHistory, timers, requests, sent, session>>
  /\ UNCHANGED <<parserVars, scanVars>>

\* Tabs onChange (lines 114-118)
ChangeTab ==
  /\ \E newValue \in TabIds \ {activeTab} : activeTab' = newValue
  /\ results' = <<>>
  /\ searchError' = Null
  /\ UNCHANGED <<query, minScore, loading, searchHistory, timers, requests,
                 sent, session>>
  /\ UNCHANGED <<parserVars, scanVars>>

\* the Search button (lines 172-175): disabled while loading
ClickSearch ==
  /\ ~loading
  /\ Budget
  /\ BeginSearch(Closure)
  /\ UNCHANGED <<activeTab, query, minScore, searchHistory, timers, session>>
  /\ UNCHANGED <<parserVars, scanVars>>

\* a chip of 'Common Violation IDs' (lines 375-379): the handleSearch it
\* schedules is the one of the render in which the click happened
ClickChip ==
  /\ Budget
  /\ \E id \in ChipIds :
       /\ query' = id
       /\ timers' = Append(timers, Scheduled([type |-> "violation", query |-> id]))
  /\ activeTab' = 2
  /\ UNCHANGED <<minScore, results, loading, searchError, searchHistory,
                 requests, sent, session>>
  /\ UNCHANGED <<parserVars, scanVars>>

\* an entry of 'Recent Searches' (lines 323-332)
ClickRecent ==
  /\ Budget
  /\ \E i \in 1..Len(searchHistory) :
       LET item == searchHistory[i]
       IN /\ query' = IF item.type \in {"semantic", "violation"}
                      THEN item.query ELSE query
          /\ minScore' = IF item.type = "compliance" THEN item.minScore
                         ELSE minScore
          /\ activeTab' = TabOfType(item.type)
          /\ timers' = Append(timers, Scheduled(item))
  /\ UNCHANGED <<results, loading, searchError, searchHistory, requests, sent, session>>
  /\ UNCHANGED <<parserVars, scanVars>>

\* 300 ms later the scheduled handleSearch runs; timers of one delay fire in
\* the order they were set
TimerFires ==
  /\ timers # <<>>
  /\ BeginSearch(Head(timers).closure)
  /\ timers' = Tail(timers)
  /\ UNCHANGED <<activeTab, query, minScore, searchHistory, session>>
  /\ UNCHANGED <<parserVars, scanVars>>

\* a handler that ends with the spinner still on
FinallySkipped == UNCHANGED loading

\* finally { setLoading(false) } (lines 82-84)
Finally == loading' = FALSE

\* the request of a handleSearch call returns (lines 52-78, 83), with rows
\* or with none
SearchReturns ==
  \E r \in requests : \E rows \in {<<>>, RowsFor(r.closure)} :
    /\ requests' = requests \ {r}
    /\ searchHistory' = <<Entry(r.closure)>> \o Slice04(searchHistory)
    /\ results' = rows
    /\ searchError' = IF Len(rows) = 0
                      THEN Str("No results found. Try different search terms.")
                      ELSE searchError
    /\ Finally
    /\ UNCHANGED <<activeTab, query, minScore, timers, sent, session>>
    /\ UNCHANGED <<parserVars, scanVars>>

\* the text the server may send in the error field of a failed response
ServerErrors == {Undefined, Str("Index unavailable")}

\* the request of a handleSearch call fails (lines 79-84), with or without
\* an error field in the server's response
SearchFails ==
  \E r \in requests, field \in ServerErrors :
    /\ requests' = requests \ {r}
    /\ searchError' = IF field = Undefined
                      THEN Str("Search failed. Please try again.")
                      ELSE field
    /\ Finally
    /\ UNCHANGED <<activeTab, query, minScore, results, searchHistory, timers,
                   sent, session>>
    /\ UNCHANGED <<parserVars, scanVars>>

NextSearch ==
  \/ TypeQuery \/ TypeMinScore \/ ChangeTab
  \/ ClickSearch \/ ClickChip \/ ClickRecent \/ TimerFires
  \/ SearchReturns \/ SearchFails

\* no suggestion is being rendered while the search view is used
ParserIdle ==
  /\ origin = Absent(Null)
  /\ suggestion = Null
  /\ resultRV = NotCalled
  /\ resultP0 = NotCalled

InitSearch ==
  /\ ParserIdle /\ SearchMounted /\ ScannerMounted
  /\ session = MaxSearches

SpecSearch == InitSearch /\ [][NextSearch]_vars

\* a session in which the user only clicks Search, violation chips and
\* recent searches
NextReplay ==
  \/ ClickSearch \/ ClickChip \/ ClickRecent \/ TimerFires
  \/ SearchReturns \/ SearchFails

InitReplay ==
  /\ ParserIdle /\ SearchMounted /\ ScannerMounted
  /\ session = MaxReplays

SpecReplay == InitReplay /\ [][NextReplay]_vars

\* the most searches of a session in which every request is answered
MaxSettles == 2

\* a session of typed queries, tab changes, Search clicks and violation
\* chips
NextSettles ==
  \/ TypeQuery \/ ChangeTab \/ ClickSearch \/ ClickChip \/ TimerFires
  \/ SearchReturns \/ SearchFails

InitSettles ==
  /\ ParserIdle /\ SearchMounted /\ ScannerMounted
  /\ session = MaxSettles

\* every request sent is answered in the end, by a response or by an error
SpecSettles ==
  InitSettles /\ [][NextSettles]_vars /\ WF_vars(SearchReturns \/ SearchFails)


---------------------------------------------------------------------------
(* Vocabulary of the properties *)

IsText == suggestion.kind = "string"

CalledRV == resultRV # NotCalled

CalledP0 == resultP0 # NotCalled

\* the marker texts the eight patterns look for
MarkerTexts ==
  {"### Concise Technical Explanation", "### Fixed HTML Snippet",
   "### Implementation Steps", "### WCAG Reference",
   "1. Explanation of this ", "2. Fixed HTML code",
   "3. Implementation steps", "WCAG reference"}

ContainsMarker(s) ==
  \E m \in MarkerTexts : Contains(FoldCase(s), FoldCase(m))

AllEmpty(r) ==
  r.explanation = "" /\ r.fixedHTML = "" /\ r.steps = <<>> /\ r.wcag = ""

WellTyped(r) ==
  /\ r.kind = "record"
  /\ r.explanation \in STRING
  /\ r.fixedHTML \in STRING
  /\ r.wcag \in STRING
  /\ r.steps \in Seq(STRING)

---------------------------------------------------------------------------
(* C1 *)

\* C1 (as claimed): called with an absent input (null or undefined), each of
\* the two parsers returns null: no record, no thrown error.
C1_AbsentGivesNull ==
  ~IsText =>
    /\ CalledRV => resultRV = Null
    /\ CalledP0 => resultP0 = Null

---------------------------------------------------------------------------
(* C2 *)

\* C2 (as claimed): for every input string, the empty one included, the
\* ResultsView.js parser returns a record (never null, never an error) whose
\* explanation, fixedHTML and wcag are strings and whose steps is a sequence.
C2_TextGivesRecord ==
  IsText /\ CalledRV => WellTyped(resultRV)

---------------------------------------------------------------------------
(* C3 *)

\* C3 (as claimed): for an input string without any marker, the record each
\* parser returns has the trimmed input as explanation and nothing else; a
\* whitespace-only input gives the empty explanation.
C3_NoMarkerGivesTrimmed ==
  IsText /\ ~ContainsMarker(suggestion.text) =>
    /\ CalledRV /\ resultRV.kind = "record" =>
         resultRV = Record(Trim(suggestion.text), "", <<>>, "")
    /\ CalledP0 => resultP0 = Record(Trim(suggestion.text), "", <<>>, "")

\* C3 (amended): for an input string without any marker, the record each
\* parser returns has the input itself, untrimmed, as explanation and nothing
\* else; every such input but the empty one gets a record from ResultsView.js.
C3_NoMarkerGivesRaw ==
  IsText /\ ~ContainsMarker(suggestion.text) =>
    /\ CalledRV /\ (resultRV.kind = "record" \/ suggestion.text # "") =>
         resultRV = Record(suggestion.text, "", <<>>, "")
    /\ CalledP0 => resultP0 = Record(suggestion.text, "", <<>>, "")

\* a marker-free text with white space around it came back as it was
C3_Witness ==
  /\ IsText /\ ~ContainsMarker(suggestion.text)
  /\ Trim(suggestion.text) # suggestion.text
  /\ Trim(suggestion.text) # ""
  /\ CalledRV /\ resultRV.kind = "record"
  /\ resultRV.explanation = suggestion.text
  /\ CalledP0 /\ resultP0.explanation = suggestion.text

---------------------------------------------------------------------------
(* C4 *)

\* a section is empty after pattern matching: no match, or a blank capture
EmptyAfterMatching(m) == ~m.found \/ Trim(m.group) = ""

\* C4: whenever explanation and fixedHTML are both empty after pattern
\* matching, the returned record is the fallback record: the whole input as
\* explanation and fixedHTML, steps and wcag empty, whatever the steps and
\* standards-reference patterns matched.
C4_BothEmptyGivesFallback ==
  IsText =>
    /\ ( /\ CalledRV /\ resultRV.kind = "record"
         /\ EmptyAfterMatching(explanationMatchRV(suggestion.text))
         /\ EmptyAfterMatching(fixedHTMLMatchRV(suggestion.text)) )
       => resultRV = Record(suggestion.text, "", <<>>, "")
    /\ ( /\ CalledP0
         /\ EmptyAfterMatching(explanationMatchP0(suggestion.text))
         /\ EmptyAfterMatching(fixedHTMLMatchP0(suggestion.text)) )
       => resultP0 = Record(suggestion.text, "", <<>>, "")

\* the steps and standards-reference sections matched with content, and the
\* fallback record came back without them
C4_Witness ==
  /\ IsText
  /\ stepsMatchRV(suggestion.text).found
  /\ StepsOfRV(stepsMatchRV(suggestion.text).group) # <<>>
  /\ wcagMatchRV(suggestion.text).found
  /\ Trim(wcagMatchRV(suggestion.text).group) # ""
  /\ CalledRV
  /\ resultRV = Record(suggestion.text, "", <<>>, "")

---------------------------------------------------------------------------
(* C5 *)

\* C5: for every non-empty input string the returned record is never
\* all-empty: explanation, fixedHTML, steps or wcag holds something.
C5_NeverAllEmpty ==
  IsText /\ suggestion.text # "" =>
    /\ CalledRV => resultRV.kind = "record" /\ ~AllEmpty(resultRV)
    /\ CalledP0 => resultP0.kind = "record" /\ ~AllEmpty(resultP0)

\* a whitespace-only text, which matches no pattern, came back as explanation
C5_Witness ==
  /\ IsText /\ suggestion.text # "" /\ Trim(suggestion.text) = ""
  /\ CalledRV /\ resultRV.kind = "record"
  /\ resultRV.explanation # ""
  /\ resultRV.fixedHTML = "" /\ resultRV.steps = <<>> /\ resultRV.wcag = ""

---------------------------------------------------------------------------
(* ScannerForm (SearchDashboard.js:410-522) and the scanner view of App      *)
(* (ResultsView.js:700-833)                                                  *)

\* the most scan requests the form sends in one session
MaxScans == 2

\* what the user types into the URL field
TypedUrls == {"not a url", "https://www.ssa.gov", "https://www.va.gov"}

\* validateUrl: new URL(input) succeeds; of the texts typed here, those with
\* a scheme and "://"
validateUrl(input) == IndexOf(input, "://", 1) > 1

\* the report the server returns for a URL
ReportOf(u) == [kind |-> "report", url |-> u]

\* a || b of JavaScript on the values of this model
Truthy(v) == v.kind \notin {"undefined", "null"} /\ (v.kind = "string" => v.text # "")

OrValue(a, b) == IF Truthy(a) THEN a ELSE b

\* v.message: undefined on a string, the property on an object, and a
\* TypeError on null and undefined
MessageOf(v) ==
  IF v.kind \in {"undefined", "null"} THEN Thrown("TypeError")
  ELSE IF v.kind = "object" THEN v.message
  ELSE Undefined

\* a failed request: the error field of the server's response, if any, and
\* the message of the exception
Failures ==
  [field : {Undefined, Str("Could not reach the site")},
   message : {Str("Request failed with status code 500"), Str("Network Error"),
              Str("")}]

\* TextField onChange of the URL field (line 452)
TypeUrl ==
  /\ \E u \in TypedUrls : url' = u
  /\ UNCHANGED <<isValidUrl, scanData, isLoading, currentURL, scanError, scans,
                 submitted, reported>>
  /\ UNCHANGED <<parserVars, searchVars>>

\* handleSubmit up to its await (lines 424-436), with App's onScanStart
\* (ResultsView.js:770-775)
Submit ==
  /\ submitted < MaxScans
  /\ IF ~validateUrl(url)
     THEN /\ isValidUrl' = FALSE
          /\ UNCHANGED <<scanData, isLoading, currentURL, scanError, scans,
                         submitted>>
     ELSE /\ isLoading' = TRUE
          /\ currentURL' = url
          /\ scanError' = Null
          /\ scanData' = Null
          /\ isValidUrl' = TRUE
          /\ scans' = scans \cup {[n |-> submitted + 1, url |-> url]}
          /\ submitted' = submitted + 1
  /\ UNCHANGED <<url, reported>>
  /\ UNCHANGED <<parserVars, searchVars>>

\* the scan request returns (line 437), with App's handleScanComplete
\* (ResultsView.js:707-711)
ScanReturns ==
  \E s \in scans :
    /\ scans' = scans \ {s}
    /\ scanData' = ReportOf(s.url)
    /\ isLoading' = FALSE
    /\ scanError' = Null
    /\ UNCHANGED <<url, isValidUrl, currentURL, submitted, reported>>
    /\ UNCHANGED <<parserVars, searchVars>>

\* the scan request fails (lines 438-440), with App's handleError
\* (ResultsView.js:713-716); a TypeError out of handleError ends the handler
\* before it sets anything
ScanFails ==
  \E s \in scans, failure \in Failures :
    LET err == OrValue(failure.field, failure.message)
    IN /\ scans' = scans \ {s}
       /\ reported' = err
       /\ IF MessageOf(err) = Thrown("TypeError")
          THEN UNCHANGED <<scanError, isLoading>>
          ELSE /\ scanError' = OrValue(MessageOf(err), Str("Scan failed"))
               /\ isLoading' = FALSE
       /\ UNCHANGED <<url, isValidUrl, scanData, currentURL, submitted>>
       /\ UNCHANGED <<parserVars, searchVars>>

NextScanner == TypeUrl \/ Submit \/ ScanReturns \/ ScanFails

InitScanner ==
  /\ ParserIdle /\ ScannerMounted
  /\ SearchMounted /\ session = 0

SpecScanner == InitScanner /\ [][NextScanner]_vars

---------------------------------------------------------------------------
(* Sectioned suggestions, as the properties speak of them *)

IsSections == origin.family = "sections"

AllInStyle(style) == IsSections /\ \A k \in SectionIds : origin.styles[k] = style

Blank(body) == Trim(body) = ""

\* text of a marker: the heading token and the label phrases
MarkerFragments ==
  {"###", "concise technical explanation", "fixed html snippet",
   "implementation steps", "wcag reference", "explanation of this",
   "fixed html code"}

NoMarkerText(body) ==
  \A m \in MarkerFragments : ~Contains(FoldCase(body), m)

\* a line of a numbered procedure: blank, or text from the first column on,
\* with or without an ordinal, and no bullet glyph in front
PlainLine(line) ==
  Blank(line) \/ Ch(line, 1) \notin (WhiteSpace \cup Bullets)

PlainLines(lines) == \A i \in 1..Len(lines) : PlainLine(lines[i])

\* where the ordinal prefix "digits." of a line ends, 0 when it has none
OrdinalEnd(line) ==
  LET ends == {d \in 1..(Len(line) - 1) :
                 /\ \A i \in 1..d : Ch(line, i) \in Digits
                 /\ Ch(line, d + 1) = "."}
  IN IF ends = {} THEN 0 ELSE Max(ends) + 1

\* the text of a line without its ordinal prefix and surrounding white space
ItemText(line) == Trim(SubSeq(line, OrdinalEnd(line) + 1, Len(line)))

NonEmpty(text) == text # ""

\* the non-blank lines in their order, each without its ordinal prefix
ExpectedSteps(lines) ==
  SelectSeq([i \in 1..Len(lines) |-> ItemText(lines[i])], NonEmpty)

IsSuffix(t, line) ==
  Len(t) <= Len(line) /\ SubSeq(line, Len(line) - Len(t) + 1, Len(line)) = t

\* steps are taken from the lines in their order: each step is what is left
\* of a line of its own, later steps from later lines
RECURSIVE InLineOrder(_, _)
InLineOrder(steps, lines) ==
  IF Len(steps) = 0 THEN TRUE
  ELSE IF Len(lines) = 0 THEN FALSE
  ELSE IF steps[1] # "" /\ IsSuffix(steps[1], Trim(lines[1]))
          /\ InLineOrder(Tail(steps), Tail(lines))
       THEN TRUE
       ELSE InLineOrder(steps, Tail(lines))

HeadingStyles == [k \in SectionIds |-> "heading"]

---------------------------------------------------------------------------
(* C6 *)

\* the explanation marker is followed, with nothing or only white space in
\* between, by a fixed-markup marker, and the explanation pattern matched
ExplanationThenMarkup ==
  /\ IsSections
  /\ origin.styles[1] # "none" /\ origin.styles[2] # "none"
  /\ Blank(origin.bodies[1])
  /\ explanationMatchRV(suggestion.text).found

\* C6 (as claimed): when the matched explanation marker is immediately
\* followed by the fixed-markup marker, the returned explanation is the empty
\* string, whatever the other sections contain.
C6_EmptyExplanation ==
  ExplanationThenMarkup /\ CalledRV =>
    resultRV.kind = "record" /\ resultRV.explanation = ""

\* C6 (amended): when the matched explanation marker is immediately followed
\* by the fixed-markup marker of the same convention, the returned
\* explanation is the empty string provided fixedHTML is not empty after
\* matching; when fixedHTML is empty too, the fallback record is returned
\* and its explanation is the whole input.
C6_EmptyExplanationUnlessFallback ==
  ExplanationThenMarkup /\ origin.styles[1] = origin.styles[2] =>
    /\ CalledRV =>
         IF EmptyAfterMatching(fixedHTMLMatchRV(suggestion.text))
         THEN resultRV = Record(suggestion.text, "", <<>>, "")
         ELSE resultRV.kind = "record" /\ resultRV.explanation = ""
    /\ CalledP0 /\ origin.styles[1] = "heading" =>
         IF EmptyAfterMatching(fixedHTMLMatchP0(suggestion.text))
         THEN resultP0 = Record(suggestion.text, "", <<>>, "")
         ELSE resultP0.kind = "record" /\ resultP0.explanation = ""

\* the explanation marker had only a line break before the fixed-markup
\* marker, and the record came back with an empty explanation next to markup
C6_Witness ==
  /\ ExplanationThenMarkup /\ origin.styles[1] = origin.styles[2]
  /\ origin.bodies[1] # ""
  /\ CalledRV /\ resultRV.kind = "record"
  /\ resultRV.explanation = "" /\ resultRV.fixedHTML # ""

---------------------------------------------------------------------------
(* C7 *)

\* the four heading markers in order, each body free of marker text, the
\* steps body a numbered procedure
HeadingSuggestion ==
  /\ AllInStyle("heading")
  /\ \A k \in SectionIds : NoMarkerText(origin.bodies[k])
  /\ PlainLines(origin.lines)

SectionsRecord ==
  Record(Trim(origin.bodies[1]), Trim(origin.bodies[2]),
         ExpectedSteps(origin.lines), Trim(origin.bodies[4]))

---------------------------------------------------------------------------
(* C8 *)

\* C8 (as claimed, for contents of which the explanation and the markup are
\* not blank, so that neither parse is the fallback record): a suggestion in
\* the numbered-label convention parses to the same four field values as the
\* heading-convention suggestion with the same section contents.
C8_NumberedParsesAsHeading ==
  ( /\ AllInStyle("numbered")
    /\ ~Blank(origin.bodies[1]) /\ ~Blank(origin.bodies[2])
    /\ CalledRV )
  => resultRV = parseSuggestion(Str(SectionText(HeadingStyles, origin.bodies)))

---------------------------------------------------------------------------
(* C10 *)

\* the steps section is closed by the standards-reference marker of its own
\* convention, and the parse is not the fallback record
StepsDelimited(style, result) ==
  /\ IsSections
  /\ origin.styles[3] = style /\ origin.styles[4] = style
  /\ result.kind = "record"
  /\ result # Record(suggestion.text, "", <<>>, "")

\* C10: steps keeps the order of the steps section. Every step is what is
\* left of one line, later steps come from later lines; and for a numbered
\* procedure (no bullet glyphs, no indentation, no restated label) steps is
\* exactly the sequence of the non-blank lines, each without its ordinal
\* prefix.
C10_StepsInOrder ==
  \A style \in {"heading", "numbered"} :
    /\ StepsDelimited(style, resultRV) =>
         /\ InLineOrder(resultRV.steps, origin.lines)
         /\ ( PlainLines(origin.lines) /\ NoMarkerText(origin.bodies[3])
              => resultRV.steps = ExpectedSteps(origin.lines) )
    /\ StepsDelimited(style, resultP0) /\ style = "heading" =>
         /\ InLineOrder(resultP0.steps, origin.lines)
         /\ ( PlainLines(origin.lines)
              => resultP0.steps = ExpectedSteps(origin.lines) )

\* the three-step block of the specification came back in its order
C10_Witness ==
  /\ IsSections
  /\ origin.lines = <<"1. Add alt text", "2. Verify contrast", "3. Test with screen reader">>
  /\ resultRV.kind = "record"
  /\ resultRV.steps = <<"Add alt text", "Verify contrast", "Test with screen reader">>
  /\ resultP0.kind = "record"
  /\ resultP0.steps = resultRV.steps

---------------------------------------------------------------------------
(* C11 *)

\* the line begins with a bullet glyph
Bulleted(line) == Len(line) > 0 /\ Ch(line, 1) \in Bullets

\* the text of a bulleted line without its glyph and surrounding white space
BulletText(line) == Trim(SubSeq(line, 2, Len(line)))

\* the steps hold the text of every bulleted line that has a text
BulletsStripped(result) ==
  \A i \in 1..Len(origin.lines) :
    LET line == origin.lines[i]
    IN Bulleted(line) /\ BulletText(line) # "" =>
         \E j \in 1..Len(result.steps) : result.steps[j] = BulletText(line)

\* C11: every steps line that begins with a bullet glyph ('-', the bullet
\* character or '*') yields a step without that bullet: the line "- Do X"
\* yields the step "Do X", in both parsers.
C11_BulletStripped ==
  /\ StepsDelimited("heading", resultRV) \/ StepsDelimited("numbered", resultRV)
       => BulletsStripped(resultRV)
  /\ StepsDelimited("heading", resultP0) => BulletsStripped(resultP0)

---------------------------------------------------------------------------
(* C12 *)

\* no step is empty or made of white space only
NoBlankStep(result) ==
  \A j \in 1..Len(result.steps) : Trim(result.steps[j]) # ""

\* the line is blank, or nothing but an ordinal, or nothing but a bullet glyph
EmptyOnceStripped(line) ==
  LET t == Trim(line)
  IN \/ t = ""
     \/ t \in Bullets
     \/ OrdinalEnd(t) > 0 /\ OrdinalEnd(t) = Len(t)

\* the lines of the steps section that carry a text
TextLines == {i \in 1..Len(origin.lines) : ~EmptyOnceStripped(origin.lines[i])}

\* blank lines and prefix-only lines gave no step
EmptyLinesDropped(result) ==
  /\ Len(result.steps) <= Cardinality(TextLines)
  /\ origin.lines = BlankBetweenLines => Len(result.steps) = 2

\* C12: no element of the returned steps is an empty or whitespace-only
\* string, in both parsers and for every input: blank lines between items, and
\* lines that are empty once their ordinal or bullet prefix is stripped, are
\* dropped, and two numbered items with one blank line between them yield
\* exactly two steps.
C12_NoBlankStep ==
  /\ resultRV.kind = "record" => NoBlankStep(resultRV)
  /\ resultP0.kind = "record" => NoBlankStep(resultP0)
  /\ StepsDelimited("heading", resultRV) \/ StepsDelimited("numbered", resultRV)
       => EmptyLinesDropped(resultRV)
  /\ StepsDelimited("heading", resultP0) => EmptyLinesDropped(resultP0)

---------------------------------------------------------------------------
(* C13 *)

\* the text is just the section label, in any letter case
IsLabel(text) == FoldCase(text) = "implementation steps"

\* a line is left out of the steps exactly when its text is just the label
OnlyLabelDropped(result) ==
  \A i \in 1..Len(origin.lines) :
    LET line == origin.lines[i]
    IN PlainLine(line) /\ ItemText(line) # "" =>
         ( IsLabel(ItemText(line))
           <=> ~\E j \in 1..Len(result.steps) : result.steps[j] = ItemText(line) )

\* C13: a line of the steps section is discarded as a restatement of the
\* section label exactly when the line, after prefix stripping and trimming,
\* is itself just the phrase "implementation steps" in any letter case; a step
\* that contains the phrase inside a longer instruction is kept.
C13_OnlyLabelDropped ==
  StepsDelimited("heading", resultRV) \/ StepsDelimited("numbered", resultRV)
    => OnlyLabelDropped(resultRV)

---------------------------------------------------------------------------
(* C14 *)

\* each of the first three sections came back whole: all the text between
\* its marker and the marker of the next section
WholeSections(result) ==
  /\ result.explanation = Trim(origin.bodies[1])
  /\ result.fixedHTML = Trim(origin.bodies[2])
  /\ result.steps = ExpectedSteps(origin.lines)

\* C14: in a suggestion written in one convention, the content of the
\* explanation, of the fixed markup and of the steps runs from the section's
\* marker up to the next marker: a "###" sub-heading in the heading
\* convention, or "2." or "3." inside prose such as "WCAG 2.1" in the
\* numbered convention, does not end the section.
C14_WholeSections ==
  /\ \A style \in {"heading", "numbered"} :
       AllInStyle(style) /\ StepsDelimited(style, resultRV)
         => WholeSections(resultRV)
  /\ AllInStyle("heading") /\ StepsDelimited("heading", resultP0)
       => WholeSections(resultP0)

---------------------------------------------------------------------------
(* C15 *)

\* the sections present in the suggestion
Present == {k \in SectionIds : origin.styles[k] # "none"}

\* the present sections are all written in that convention
WrittenIn(style) ==
  IsSections /\ Present # {} /\ \A k \in Present : origin.styles[k] = style

\* the result is a record of sections, not the fallback record
Parsed(result) ==
  result.kind = "record" /\ result # Record(suggestion.text, "", <<>>, "")

\* the field of section k holds all the text that follows the marker of k
HoldsBody(result, k) ==
  CASE k = 1 -> result.explanation = Trim(origin.bodies[1])
    [] k = 2 -> result.fixedHTML = Trim(origin.bodies[2])
    [] k = 3 -> result.steps = ExpectedSteps(origin.lines)
    [] k = 4 -> result.wcag = Trim(origin.bodies[4])

\* C15: the section whose marker is the last marker of the input has as
\* content everything from its marker to the end of the string: an input that
\* ends with the fixed-markup section, or with the steps section, still
\* yields that content in fixedHTML, respectively in steps.
C15_LastSectionToEnd ==
  /\ \A style \in {"heading", "numbered"} :
       WrittenIn(style) /\ Parsed(resultRV) => HoldsBody(resultRV, Max(Present))
  /\ WrittenIn("heading") /\ Parsed(resultP0) => HoldsBody(resultP0, Max(Present))

---------------------------------------------------------------------------
(* C16 *)

IsDouble == origin.family = "double"

\* the suggestion has a standards-reference marker
WcagMarked ==
  \/ IsSections /\ origin.styles[4] # "none"
  \/ IsDouble /\ \E style \in {"heading", "numbered"} : 4 \in origin.present[style]

\* all the text after the standards-reference marker (after the heading one
\* when the suggestion has both), the colon of the label form not included
AfterWcagMarker ==
  IF IsSections THEN origin.bodies[4]
  ELSE LET style == IF 4 \in origin.present["heading"] THEN "heading"
                    ELSE "numbered"
           later == IF origin.order[1] = style
                    THEN DoublePart(origin.order[2], origin.present[origin.order[2]])
                    ELSE ""
       IN DoubleBodies(style)[4] \o later

\* C16 (as claimed): when the standards-reference marker is present, wcag is
\* everything after that marker up to the end of the input, trimmed, without
\* the colon of the label form "WCAG reference:".
C16_WcagToEnd ==
  WcagMarked /\ resultRV.kind = "record" => resultRV.wcag = Trim(AfterWcagMarker)

\* C16 (amended): that holds when the result is a record of sections; when
\* neither an explanation nor a fixed markup was found the result is the
\* fallback record, whose wcag is empty although the marker is present.
C16_WcagToEndUnlessFallback ==
  WcagMarked /\ resultRV.kind = "record" =>
    resultRV.wcag = IF Parsed(resultRV) THEN Trim(AfterWcagMarker) ELSE ""

\* a label-form reference "WCAG reference: 1.4.3" came back as "1.4.3", and
\* in another suggestion the reference ran on over later text to the end
C16_Witness ==
  /\ Parsed(resultRV)
  /\ \/ /\ IsSections /\ origin.styles[4] = "numbered"
        /\ origin.bodies[4] = " 1.4.3" /\ resultRV.wcag = "1.4.3"
     \/ /\ IsDouble /\ origin.order[1] = "numbered"
        /\ 4 \in origin.present["numbered"] /\ origin.present["heading"] = {1, 2}
        /\ resultRV.wcag = Trim(AfterWcagMarker)
        /\ Len(resultRV.wcag) > Len(DoubleBodies("numbered")[4])

---------------------------------------------------------------------------
(* C17 *)

RaiseChar(c) ==
  IF \E u \in DOMAIN LowerOf : LowerOf[u] = c
  THEN CHOOSE u \in DOMAIN LowerOf : LowerOf[u] = c
  ELSE c

RECURSIVE RaiseCase(_)
RaiseCase(s) ==
  IF Len(s) = 0 THEN ""
  ELSE IF Len(s) = 1 THEN RaiseChar(s)
  ELSE LET h == Len(s) \div 2
       IN RaiseCase(SubSeq(s, 1, h)) \o RaiseCase(SubSeq(s, h + 1, Len(s)))

Casings == {"lower", "upper"}

Recase(casing, text) ==
  IF casing = "lower" THEN FoldCase(text) ELSE RaiseCase(text)

\* the sectioned suggestion with the letter case of its markers changed and
\* its bodies as they are
Recased(casing) ==
  Concat([k \in SectionIds |->
            IF origin.styles[k] = "none" THEN ""
            ELSE Recase(casing, Marker(origin.styles[k], k)) \o origin.bodies[k]])

\* C17 (as claimed): marker matching is case-insensitive: changing the letter
\* case of the markers of an input (as in "### concise technical explanation"
\* or "WCAG REFERENCE:") leaves the returned record unchanged, for every input.
C17_CaseLeavesRecord ==
  IsSections /\ CalledRV =>
    \A casing \in Casings : parseSuggestion(Str(Recased(casing))) = resultRV

\* a record or null with the letter case of its texts folded
FoldResult(r) ==
  IF r.kind # "record" THEN r
  ELSE Record(FoldCase(r.explanation), FoldCase(r.fixedHTML),
              [n \in 1..Len(r.steps) |-> FoldCase(r.steps[n])], FoldCase(r.wcag))

\* some text of the record is, or contains, the words of a marker
HoldsMarkerText(r) ==
  \/ ~NoMarkerText(r.explanation) \/ ~NoMarkerText(r.fixedHTML)
  \/ ~NoMarkerText(r.wcag)
  \/ \E n \in 1..Len(r.steps) : ~NoMarkerText(r.steps[n])

\* C17 (amended): changing the letter case of the markers leaves the record
\* unchanged up to letter case, and exactly unchanged when no text of the
\* record holds marker text. Marker text is returned as it is written: in
\* the fallback record, whose explanation is the whole input, and where a
\* marker that was not matched lies inside the content of another section.
C17_CaseLeavesSections ==
  IsSections /\ resultRV.kind = "record" =>
    \A casing \in Casings :
      LET recased == parseSuggestion(Str(Recased(casing)))
      IN /\ FoldResult(recased) = FoldResult(resultRV)
         /\ ~HoldsMarkerText(resultRV) => recased = resultRV

\* a suggestion with all four markers in either convention was parsed into
\* its sections, and is parsed into the same record with its markers in
\* capitals
C17_Witness ==
  /\ AllInStyle("heading") \/ AllInStyle("numbered")
  /\ Parsed(resultRV)
  /\ resultRV.explanation = "Missing alt attribute."
  /\ resultRV.steps # <<>>
  /\ Recased("upper") # suggestion.text
  /\ parseSuggestion(Str(Recased("upper"))) = resultRV

---------------------------------------------------------------------------
(* C18 *)

\* section k is written in both conventions, and its heading marker is
\* followed by a later heading, so that the heading pattern has a match
BothWithHeadingMatch(k) ==
  /\ IsDouble
  /\ k \in origin.present["heading"] /\ k \in origin.present["numbered"]
  /\ k = 4 \/ \E later \in origin.present["heading"] : later > k

\* the field of section k is the content written under the heading marker
FromHeading(result, k) ==
  CASE k = 1 -> result.explanation = Trim(DoubleBodies("heading")[1])
    [] k = 2 -> result.fixedHTML = Trim(DoubleBodies("heading")[2])
    [] k = 3 -> result.steps = <<"Add alt text">>
    [] k = 4 -> result.wcag = Trim(AfterWcagMarker)

\* the sections of the suggestion are written in different conventions
MixedConventions ==
  \/ IsDouble /\ origin.present["heading"] # {} /\ origin.present["numbered"] # {}
  \/ IsSections /\ \E j, k \in Present : origin.styles[j] # origin.styles[k]

\* C18 (as claimed): the conventions are tried per section, the heading
\* convention first: when a section has markers of both conventions the
\* heading-convention match supplies the field; and an input that mixes the
\* conventions between sections is parsed without any error.
C18_HeadingFirst ==
  CalledRV =>
    /\ \A k \in SectionIds : BothWithHeadingMatch(k) => FromHeading(resultRV, k)
    /\ MixedConventions => resultRV.kind = "record"

\* C18 (amended): the same, for a result that is a record of sections; when
\* no explanation and no fixed markup was found the fallback record is
\* returned, and no match supplies any field.
C18_HeadingFirstUnlessFallback ==
  CalledRV =>
    /\ \A k \in SectionIds :
         BothWithHeadingMatch(k) =>
           IF Parsed(resultRV) THEN FromHeading(resultRV, k)
           ELSE resultRV = Fallback(suggestion.text)
    /\ MixedConventions => resultRV.kind = "record"

\* a suggestion written in the numbered convention and then again in the
\* heading convention: both explanation patterns match, with different
\* contents, and the explanation returned is the one under the heading
C18_Witness ==
  /\ IsDouble /\ origin.order[1] = "numbered"
  /\ BothWithHeadingMatch(1)
  /\ MatchRuleIdLazyUntil(suggestion.text, "1. Explanation of this ",
                          " violation", "2.").found
  /\ Trim(DoubleBodies("numbered")[1]) # Trim(DoubleBodies("heading")[1])
  /\ Parsed(resultRV)
  /\ resultRV.explanation = "Missing alt attribute."

---------------------------------------------------------------------------
(* C19 *)

\* the text of a line without indentation, then without its ordinal prefix,
\* then without its bullet prefix, trimmed
BareText(line) ==
  LET unnumbered == ItemText(Trim(line))
  IN IF Bulleted(unnumbered) THEN BulletText(unnumbered) ELSE unnumbered

\* the steps hold the bare text of every line that has one
BareSteps(result) ==
  \A i \in 1..Len(origin.lines) :
    LET line == origin.lines[i]
    IN BareText(line) # "" /\ NoMarkerText(line) =>
         \E j \in 1..Len(result.steps) : result.steps[j] = BareText(line)

\* C19: for each non-blank steps line the ordinal prefix is stripped, then
\* the bullet prefix, and the result is trimmed: a line with both prefixes
\* ("1. - Do X") and a line whose prefix follows indentation ("   2. Do Y",
\* "   - Do Z") yield the bare step text ("Do X", "Do Y", "Do Z").
C19_BareSteps ==
  StepsDelimited("heading", resultRV) \/ StepsDelimited("numbered", resultRV)
    => BareSteps(resultRV)

---------------------------------------------------------------------------
(* C20 *)

NotLabelled(step) == ~Contains(FoldCase(step), "implementation steps")

\* the two records are equal, but for the steps that match the section
\* label, which only the second one has
EqualButLabelSteps(rv, p0) ==
  /\ rv.kind = "record" /\ p0.kind = "record"
  /\ rv.explanation = p0.explanation
  /\ rv.fixedHTML = p0.fixedHTML
  /\ rv.wcag = p0.wcag
  /\ rv.steps = SelectSeq(p0.steps, NotLabelled)

\* C20: the two parse implementations are near-duplicates: for every
\* non-null input that uses only the heading convention they return equal
\* records, except that the one of ResultsView.js drops the steps lines that
\* match "implementation steps" in any letter case and the other keeps them.
C20_NearDuplicates ==
  WrittenIn("heading") /\ CalledRV /\ CalledP0 =>
    EqualButLabelSteps(resultRV, resultP0)

---------------------------------------------------------------------------
(* C21 *)

\* the search of a scheduled handleSearch is the one of the clicked item:
\* its type, and its query or its minimum score
SearchesClicked(t) ==
  LET c == t.closure
      item == t.clicked
  IN /\ SearchType(c.activeTab) = item.type
     /\ IF item.type = "compliance" THEN c.minScore = item.minScore
        ELSE c.query = item.query

\* C21: after a click on a chip of 'Common Violation IDs' or on an entry of
\* 'Recent Searches', the search that fires 300 ms later uses the clicked
\* item's own search type and parameters (the violation lookup of the chip's
\* id; the entry's tab with its query or its minimum score), whatever tab and
\* query were active when the click happened.
C21_ClickedItemSearched ==
  [][TimerFires => SearchesClicked(Head(timers))]_vars

---------------------------------------------------------------------------
(* C22 *)

\* the results table is rendered (line 191)
ResultsShown == ~loading /\ Len(results) > 0

\* C22: under every interleaving of tab changes, search starts and response
\* arrivals, the rows shown under the active tab were returned by a search of
\* the type of that tab; the response of a search started on another tab
\* never fills the results shown under the active tab.
C22_ResultsOfActiveTab ==
  ResultsShown => \A i \in 1..Len(results) : results[i].type = SearchType(activeTab)

---------------------------------------------------------------------------
(* C23 *)

\* a submitted scan has neither completed nor failed
ScanPending == scans # {}

\* C23: in the scanner view, under every interleaving of URL submissions and
\* scan responses, the scan results displayed (scanData non-null) are those
\* of the most recently submitted URL (currentURL), and isLoading is true as
\* long as a submitted scan has not yet completed or failed.
C23_LatestScanShown ==
  /\ scanData # Null => scanData.url = currentURL
  /\ ScanPending => isLoading

---------------------------------------------------------------------------
(* C24 *)

\* C24: when a scan request fails, the error shown by App is the message
\* that ScannerForm reports (the error field of the server's response when
\* it is present, otherwise the message of the exception); the generic text
\* 'Scan failed' appears only when neither exists.
C24_ReportedErrorShown ==
  [][ScanFails =>
       scanError' = IF Truthy(reported') THEN reported' ELSE Str("Scan failed")]_vars

---------------------------------------------------------------------------
(* C25 *)

\* the entries of the history from the latest date to the earliest
MostRecentFirst ==
  \A i \in 1..Len(searchHistory) - 1 :
    searchHistory[i].date > searchHistory[i + 1].date

\* a search refused for its blank semantic query (lines 38-41)
SearchRejected ==
  /\ ClickSearch \/ TimerFires
  /\ searchError' = Str("Please enter a search query")

\* one entry is put in front of the entries the history had, of which at
\* most four stay
EntryAdded ==
  /\ Len(searchHistory') >= 1
  /\ \A i \in 2..Len(searchHistory') : searchHistory'[i] = searchHistory[i - 1]

\* C25: after any sequence of searches the recent-search history holds at
\* most 5 entries, ordered most recent first; an entry is added only for a
\* search whose request returned successfully, and a search rejected for an
\* empty semantic query or failed by a request error adds none.
C25_HistoryOfSuccesses ==
  /\ [](Len(searchHistory) <= 5 /\ MostRecentFirst)
  /\ [][/\ searchHistory' # searchHistory => SearchReturns /\ EntryAdded
        /\ SearchRejected \/ SearchFails => UNCHANGED searchHistory]_vars

\* the history is full and its sixth search has pushed the first one out
C25_Witness ==
  /\ Len(searchHistory) = 5
  /\ searchHistory[1].date = 6
  /\ searchHistory[5].date = 2

---------------------------------------------------------------------------
(* C26 *)

\* the n-th request sent is waiting for its answer
Pending(n) == \E r \in requests : r.n = n

\* a handleSearch call gets past the check of the query and sends its request
SearchStarts == sent' = sent + 1

\* the answer of a request arrives, rows, no rows or an error
SearchSettles == SearchReturns \/ SearchFails

\* C26: every search that sets loading to true eventually sets it back to
\* false, whether its request succeeds with results, succeeds with no
\* results or fails (every request settling in the end); a search rejected
\* for an empty or whitespace-only semantic query never sets loading, sends
\* no request and leaves results and history unchanged.
C26_LoadingReset ==
  /\ \A n \in 1..MaxSettles : Pending(n) ~> ~Pending(n)
  /\ [][/\ SearchStarts => loading' /\ \E r \in requests' : r.n = sent'
        /\ SearchSettles => ~loading'
        /\ SearchRejected =>
             UNCHANGED <<loading, requests, sent, results, searchHistory>>]_vars

\* both searches of a session have been sent and answered, one by a response
\* and then the other by an error, and the spinner is off
C26_Witness ==
  /\ sent = MaxSettles
  /\ requests = {}
  /\ ~loading
  /\ Len(searchHistory) = 1
  /\ searchError = Str("Search failed. Please try again.")

=============================================================================
